---------------------------- MODULE Spec2Model ----------------------------
(***************************************************************************)
(* Model of the trademark checker: the Gradio front end (app.py), the      *)
(* orchestrator TrademarkChecker (main_checker.py), the name validator     *)
(* (validator.py), the WIPO client's retry loop (WIPO_name_checker.py),    *)
(* the CSV database (local_db_checker.py) and the manager of the UK worker *)
(* process (uk_checker_process.py).                                        *)
(*                                                                         *)
(* Text is modelled as a tuple of one-character strings, so that strip,    *)
(* split and lower are computed and not assumed.                           *)
(*                                                                         *)
(* main_checker.py reads "status", "brands" and "total_found" from the     *)
(* dictionary returned by the TMDN client.  The revision of the TMDN       *)
(* client that returns such a dictionary is not among the sources (the     *)
(* revision in tmdn_name_checker.py returns "success"/"data"), and neither *)
(* is the WIPO_CONFIG block that WIPO_name_checker.py imports.  Both are   *)
(* modelled from the specification's SourceResult contract and retry       *)
(* policy, and are marked as such where they are defined.                  *)
(***************************************************************************)
EXTENDS Integers, Sequences, FiniteSets, TLC

VARIABLES
    now,                    \* the wall clock read by time.time(), in seconds
    query_lock,             \* app.py query_lock: Free or the holding invocation
    current_query,          \* app.py current_query: is_querying, start_time
    last_tmdn_query_time,   \* TrademarkChecker.last_tmdn_query_time
    checked_names,          \* the lines of the checked-names file
    df,                     \* LocalDBChecker.df: the records of the CSV database
    lookup,                 \* frame of a LocalDBChecker.search_trademark call
    uk,                     \* the UKCheckerProcess object: process, queues, _is_stopping
    workers,                \* the worker processes spawned by run_uk_process
    queues,                 \* the contents of the multiprocessing queues created
    call,                   \* frame of the running UKCheckerProcess method call
    pc,                     \* position of each process_query invocation
    names,                  \* process_query argument: the lines of the text
    nice_class,             \* process_query / check_trademarks argument nice_class
    lock_acquired,          \* process_query local lock_acquired
    name_list,              \* process_query local name_list
    valid_names,            \* process_query local valid_names
    results,                \* process_query local results
    idx,                    \* loop index of "for i, name in enumerate(valid_names, 1)"
    ret,                    \* the value process_query returns
    ct,                     \* frame of the running check_trademark call
    hist                    \* per invocation observations (history, not program state)

ukvars  == <<uk, workers, queues, call>>
globals == <<query_lock, current_query, last_tmdn_query_time, checked_names, df, lookup, ukvars, ukvars>>
locals  == <<names, nice_class, lock_acquired, name_list, valid_names, results, idx, ret, ct, hist>>
vars    == <<now, globals, pc, locals>>

-----------------------------------------------------------------------------
(* Program constants *)

StaleCeiling == 300
MinTmdnInterval == 1
MaxNamesPerQuery == 100
MaxNameLength == 50
WipoDisplayLimit == 15
MaxNamesPerBatch == 20
\* WIPO_CONFIG["max_retries"] and WIPO_CONFIG["retry_delay"]: the block is
\* not in config.py; the values are the specification's (one retry, ~5s).
MaxRetries == 2
RetryDelay == 5

(* Bounds of the model *)

MaxTicks == 1      \* number of clock advances in a behaviour
MaxMarks == 2      \* length of the mark lists given to the classifier
MaxRawLen == 3     \* length of the short texts given to the validator
MaxCalls == 3      \* number of calls made on one UKCheckerProcess

Procs == {1, 2}    \* concurrent process_query invocations (Gradio workers)
Free == 0

\* the classes the front end offers, and the one it starts with, which is
\* also the default of check_trademark and check_trademarks
NiceClasses == {"14", "20", "21"}
DefaultNiceClass == "20"

LOCAL_DB == "local_db"   \* the label of the local database in search_source
TMDN == "TMDN"
WIPO == "WIPO"

-----------------------------------------------------------------------------
(* Text: str.lower, str.strip, str.split, as Python computes them *)

Letters == {"a", "b", "c", "A", "B"}
Digits == {"1"}
WhiteSpace == {" "}

LowerChar(c) ==
    CASE c = "A" -> "a"
      [] c = "B" -> "b"
      [] OTHER -> c

Lower(s) == [i \in 1..Len(s) |-> LowerChar(s[i])]

RECURSIVE LStrip(_)
LStrip(s) ==
    IF s # <<>> /\ Head(s) \in WhiteSpace THEN LStrip(Tail(s)) ELSE s

RECURSIVE RStrip(_)
RStrip(s) ==
    IF s # <<>> /\ s[Len(s)] \in WhiteSpace
    THEN RStrip(SubSeq(s, 1, Len(s) - 1))
    ELSE s

Strip(s) == RStrip(LStrip(s))

\* str.split() without argument: split on runs of whitespace, no empty words
RECURSIVE SplitFrom(_, _, _)
SplitFrom(s, word, acc) ==
    IF s = <<>>
    THEN IF word = <<>> THEN acc ELSE Append(acc, word)
    ELSE IF Head(s) \in WhiteSpace
         THEN SplitFrom(Tail(s), <<>>, IF word = <<>> THEN acc ELSE Append(acc, word))
         ELSE SplitFrom(Tail(s), Append(word, Head(s)), acc)

Split(s) == SplitFrom(s, <<>>, <<>>)

Range(s) == {s[i] : i \in 1..Len(s)}

\* the orders in which list(set(s)) can enumerate the elements of s
Orderings(S) ==
    {f \in [1..Cardinality(S) -> S] : \A i, j \in 1..Cardinality(S) : f[i] = f[j] => i = j}

\* the keys of a dict filled in the order of s: first occurrences only
RECURSIVE DictKeys(_)
DictKeys(s) ==
    IF s = <<>> THEN <<>>
    ELSE LET rest == DictKeys(SubSeq(s, 1, Len(s) - 1))
             last == s[Len(s)]
         IN  IF last \in Range(rest) THEN rest ELSE Append(rest, last)

Get(r, key, default) == IF key \in DOMAIN r THEN r[key] ELSE default

-----------------------------------------------------------------------------
(* validator.py *)

validate_name(name) ==
    LET s == Strip(name)
        words == Split(s)
    IN  IF s = <<>> THEN [is_valid |-> FALSE, value |-> "empty"]
        ELSE IF ~(Range(s) \subseteq (Letters \cup Digits \cup WhiteSpace))
             THEN [is_valid |-> FALSE, value |-> "charset"]
        ELSE IF Len(words) > 1 THEN [is_valid |-> FALSE, value |-> "multiword"]
        ELSE IF Len(s) > MaxNameLength THEN [is_valid |-> FALSE, value |-> "too_long"]
        ELSE IF Range(s) \subseteq Digits THEN [is_valid |-> FALSE, value |-> "digits_only"]
        ELSE [is_valid |-> TRUE, value |-> s]

-----------------------------------------------------------------------------
(* main_checker.py: the match classifier *)

BrandWords(brand) ==
    LET w == Split(brand) IN [i \in 1..Len(w) |-> Strip(Lower(w[i]))]

\* a test for the candidate as a part of any word
HasExactPart(query_name, brand) ==
    LET q == Strip(Lower(query_name))
        words == BrandWords(brand)
    IN  \E i \in 1..Len(words) : \E k \in 0..(Len(words[i]) - Len(q)) :
            SubSeq(words[i], k + 1, k + Len(q)) = q

\* "if query_name in words"
HasExactWord(query_name, brand) ==
    Strip(Lower(query_name)) \in Range(BrandWords(brand))

\* a count of the positions that agree
same_count(word, query) ==
    Cardinality({i \in 1..Len(word) : word[i] = query[i]})

\* sum(1 for a, b in zip(word, query_name) if a != b)
diff_count(word, query) ==
    Cardinality({i \in 1..Len(word) : word[i] # query[i]})

\* a test that also accepts a word that does not differ
HasSimilarWordAtMostOne(query_name, brand) ==
    LET q == Strip(Lower(query_name))
        words == BrandWords(brand)
    IN  \E i \in 1..Len(words) :
            /\ Len(words[i]) = Len(q)
            /\ diff_count(words[i], q) <= 1

HasSimilarWord(query_name, brand) ==
    LET q == Strip(Lower(query_name))
        words == BrandWords(brand)
    IN  \E i \in 1..Len(words) :
            /\ Len(words[i]) = Len(q)
            /\ diff_count(words[i], q) = 1

RECURSIVE FilterBrands(_, _, _)
FilterBrands(Test(_, _), query_name, brand_names) ==
    IF brand_names = <<>> THEN <<>>
    ELSE IF Test(query_name, Head(brand_names))
         THEN <<Head(brand_names)>> \o FilterBrands(Test, query_name, Tail(brand_names))
         ELSE FilterBrands(Test, query_name, Tail(brand_names))

check_exact_match(query_name, brand_names) ==
    FilterBrands(HasExactWord, query_name, brand_names)

check_similar_match(query_name, brand_names) ==
    FilterBrands(HasSimilarWord, query_name, brand_names)

-----------------------------------------------------------------------------
(* The inputs the environment can supply *)

L_ab == <<"a", "b">>
L_Ab == <<" ", "A", "b">>
L_bad == <<"a", "!">>
L_blank == <<" ">>

\* the lines of the text box (text.split('\n')), one batch per invocation
BatchPool ==
    { <<>>, <<L_blank>>, <<L_ab>>, <<L_bad>>,
      <<L_ab, L_bad>>, <<L_bad, L_ab>>, <<L_ab, L_Ab>>, <<L_ab, L_bad, L_bad>>,
      [i \in 1..(MaxNamesPerQuery + 1) |-> L_ab] }

M_exact == <<"c", " ", "A", "B">>
M_similar == <<"a", "c">>
M_none == <<"a", "b", "c">>

\* more marks than the display limit, all different, none near a candidate
ManyMarks ==
    LET second == <<"a", "b", "c", "1">>
    IN  [i \in 1..(WipoDisplayLimit + 1) |->
            <<"c", second[((i - 1) \div 4) + 1], second[((i - 1) % 4) + 1]>>]

\* the candidates and the marks the classifier is called with
K_part == <<"a", "b", "c">>
K_both == <<"a", "b", " ", "a", "c">>
K_twice == <<"a", "c", " ", " ", "b", "b">>
K_far == <<"b", "a">>
K_one == <<"a">>

CandidatePool == {<<"a", "b">>, <<"A", "b">>, <<"a">>}
MarkPool == {K_part, M_exact, M_similar, K_both, K_twice, K_far, K_one}
MarkLists == UNION {[1..n -> MarkPool] : n \in 0..MaxMarks}

\* the dictionaries a source client can return on success
OkReply(brands, total) ==
    [status |-> "success", brands |-> brands, total_found |-> total]

ErrorReply(msg) ==
    [status |-> "error", error_message |-> msg, brands |-> <<>>, total_found |-> 0]

TmdnReplies ==
    { ErrorReply("tmdn_error"),
      OkReply(<<M_none>>, 1),
      OkReply(ManyMarks, WipoDisplayLimit + 1),
      OkReply(<<M_similar>>, 1),
      OkReply(<<M_none, M_exact>>, 2) }

\* what one attempt of WIPOChecker.search_trademark can end in: the page
\* was read (a success dictionary), an exception, or a page that
\* _try_get_page_content gave up on (it returned False)
WipoPages ==
    { OkReply(<<>>, 0),
      OkReply(<<M_none>>, WipoDisplayLimit + 1),
      OkReply(<<M_exact, M_similar, M_exact>>, 3) }

WipoOutcomes == {"page", "raise", "no_content"}

\* Python's None, the value of a function that ends without a return statement
PyNone == [status |-> "None"]

\* the lines of the checked-names file
CheckedNamesFile == {<<"A", "b", " ">>}

\* what a look at the file can end in: it is read, it does not exist, the
\* file lock is not obtained within 10 s, or reading raises
LocalOutcomes == {"read", "missing", "lock_timeout", "read_error"}

-----------------------------------------------------------------------------
(* app.py: the pure parts of process_query *)

\* a limit that rejects nothing
OverLimitNever(list) == FALSE

\* "if len(name_list) > 100"
OverLimit(list) == Len(list) > MaxNamesPerQuery

parse_input_names(lines) ==
    LET stripped == [i \in 1..Len(lines) |-> Strip(lines[i])]
        NotEmpty(name) == name # <<>>
    IN  SelectSeq(stripped, NotEmpty)

InvalidResult(name, message) ==
    [query_name |-> name, status |-> "error", error_message |-> message,
     brands |-> <<>>, total_found |-> 0, total_displayed |-> 0,
     has_exact_match |-> FALSE, exact_matches |-> <<>>, search_source |-> <<>>]

\* the validation loop: the error records of the invalid names, in order
InvalidResults(list) ==
    LET Rejected(name) == ~validate_name(name).is_valid
        rejected == SelectSeq(list, Rejected)
    IN  [i \in 1..Len(rejected) |->
            InvalidResult(rejected[i], validate_name(rejected[i]).value)]

\* a loop that lets every name through
ValidNamesUnchecked(list) == list

\* the validation loop: the validated names, in order
ValidNames(list) ==
    LET Accepted(name) == validate_name(name).is_valid
        accepted == SelectSeq(list, Accepted)
    IN  [i \in 1..Len(accepted) |-> validate_name(accepted[i]).value]

\* an if-chain that tests the similar match before the exact match
SummaryGroupSimilarFirst(result) ==
    IF Get(result, "in_local_db", FALSE) THEN "local_match"
    ELSE IF result.status = "error" THEN "error"
    ELSE IF result.has_similar_match THEN "similar"
    ELSE IF result.has_exact_match THEN "existing"
    ELSE IF result.total_found > WipoDisplayLimit
            /\ WIPO \in Range(Get(result, "search_source", <<>>)) THEN "warning"
    ELSE "available"

\* the branch of format_summary's if-chain a result falls in
SummaryGroup(result) ==
    IF Get(result, "in_local_db", FALSE) THEN "local_match"
    ELSE IF result.status = "error" THEN "error"
    ELSE IF result.has_exact_match THEN "existing"
    ELSE IF result.has_similar_match THEN "similar"
    ELSE IF result.total_found > WipoDisplayLimit
            /\ WIPO \in Range(Get(result, "search_source", <<>>)) THEN "warning"
    ELSE "available"

RECURSIVE GroupNames(_, _)
GroupNames(res, group) ==
    IF res = <<>> THEN <<>>
    ELSE IF SummaryGroup(Head(res)) = group
         THEN <<Head(res).query_name>> \o GroupNames(Tail(res), group)
         ELSE GroupNames(Tail(res), group)

format_summary(res) ==
    [local_match |-> GroupNames(res, "local_match"),
     existing |-> GroupNames(res, "existing"),
     similar |-> GroupNames(res, "similar"),
     available |-> GroupNames(res, "available"),
     warning |-> GroupNames(res, "warning"),
     error |-> GroupNames(res, "error")]

\* the branch of format_detailed_results a result falls in
DetailOf(result) ==
    IF result.status = "error" THEN "error"
    ELSE IF ~(result.total_found > 0) THEN "status_only"
    ELSE IF result.has_exact_match THEN "exact"
    ELSE IF result.has_similar_match THEN "similar"
    ELSE IF result.total_found > WipoDisplayLimit
            /\ WIPO \in Range(Get(result, "search_source", <<>>)) THEN "wipo_truncated"
    ELSE "no_match"

\* detailed_info: a dict keyed by query_name, the last result of a name wins
format_detailed_results(res) ==
    LET keys == DictKeys([i \in 1..Len(res) |-> res[i].query_name])
        LastOf(k) == CHOOSE i \in 1..Len(res) :
                        /\ res[i].query_name = k
                        /\ \A j \in (i + 1)..Len(res) : res[j].query_name # k
    IN  [i \in 1..Len(keys) |->
            [query_name |-> keys[i], detail |-> DetailOf(res[LastOf(keys[i])])]]

\* a test for some failed result
AnyFailed(res) == \E i \in 1..Len(res) : res[i].status = "error"

\* all(result["status"] == "error" for result in results)
AllFailed(res) == \A i \in 1..Len(res) : res[i].status = "error"

NoReturn == [kind |-> "none"]
Returned(kind) == [kind |-> kind, choices |-> <<>>, detailed_info |-> <<>>]

-----------------------------------------------------------------------------
(* main_checker.py: check_trademark *)

\* the result dictionary check_trademark starts from
NewResult(query_name) ==
    [query_name |-> query_name, status |-> "success", brands |-> <<>>,
     total_found |-> 0, total_displayed |-> 0,
     has_exact_match |-> FALSE, has_similar_match |-> FALSE,
     exact_matches |-> <<>>, similar_matches |-> <<>>,
     search_source |-> <<LOCAL_DB>>, error_details |-> <<>>,
     error_message |-> "", in_local_db |-> FALSE]

\* the frame of a check_trademark call
NewFrame(query_name) ==
    [query_name |-> query_name, result |-> NewResult(query_name),
     exact_matches |-> <<>>, similar_matches |-> <<>>,
     attempt |-> 0, wake |-> 0]

NoFrame == NewFrame(<<>>)

\* a lookup that answers from the recorded names even when the file is not read
check_local_database_remembered(query_name, file, outcome) ==
    Strip(Lower(query_name)) \in {Lower(Strip(line)) : line \in file}

\* _check_local_database: the lower-cased, stripped name is a line of the file
check_local_database(query_name, file, outcome) ==
    IF outcome = "missing" THEN FALSE
    ELSE IF outcome \in {"lock_timeout", "read_error"} THEN FALSE
    ELSE Strip(Lower(query_name)) \in {Lower(Strip(line)) : line \in file}

\* a local hit that does not return
AfterLocalNoReturn(found) == "rl_read"

\* "if self._check_local_database(query_name): ... return result"
AfterLocal(found) == IF found THEN "ct_return" ELSE "rl_read"

\* a failure that returns a fresh error result
FailedDroppingPartial(result, message) ==
    [NewResult(result.query_name) EXCEPT !.status = "error", !.error_message = message,
                                         !.error_details = <<message>>]

\* the result returned when a source failed
Failed(result, message) ==
    [result EXCEPT !.status = "error", !.error_message = message,
                   !.error_details = Append(@, message)]

\* a merge that counts the marks received
MergedCountingMarks(result, reply, source) ==
    [result EXCEPT !.brands = @ \o reply.brands,
                   !.total_found = @ + Len(reply.brands),
                   !.search_source = Append(@, source)]

\* the result after a source succeeded
Merged(result, reply, source) ==
    [result EXCEPT !.brands = @ \o reply.brands,
                   !.total_found = @ + reply.total_found,
                   !.search_source = Append(@, source)]

\* a limiter that never waits
MustWaitNever(time_since_last_query) == FALSE

\* "if time_since_last_query < 1"
MustWait(time_since_last_query) == time_since_last_query < MinTmdnInterval

\* an order in which WIPO is asked before TMDN
NextSourceWipoFirst(search_source) ==
    IF search_source = <<LOCAL_DB>> THEN "wipo" ELSE "tmdn"

\* the order of the calls in check_trademark: TMDN is searched when only the
\* local database has answered, WIPO after TMDN
NextSource(search_source) ==
    IF search_source = <<LOCAL_DB>> THEN "tmdn" ELSE "wipo"

\* a test that looks at the similar matches only
NeedsWipoIgnoringExact(exact, similar) == similar = <<>>

\* "if not exact_matches and not similar_matches": WIPO is consulted
NeedsWipo(exact, similar) == exact = <<>> /\ similar = <<>>

\* a finalisation that sets the flags and leaves the match lists empty
FinalizedFlagsOnly(result, exact, similar) ==
    { [result EXCEPT !.total_displayed = Len(result.brands),
                     !.has_exact_match = Len(exact) > 0,
                     !.has_similar_match = Len(similar) > 0] }

\* the results check_trademark can end with: list(set(..)) fixes no order
Finalized(result, exact, similar) ==
    { [result EXCEPT !.total_displayed = Len(result.brands),
                     !.has_exact_match = Len(exact) > 0,
                     !.exact_matches = e,
                     !.has_similar_match = Len(similar) > 0,
                     !.similar_matches = s] :
        e \in Orderings(Range(exact)), s \in Orderings(Range(similar)) }

-----------------------------------------------------------------------------
(* local_db_checker.py: the local database of known names *)

\* an empty DataFrame: what load_database leaves when the file cannot be read
NoRecords == <<>>

NoResponse == [status |-> "none"]
NoLookup ==
    [query_name |-> <<>>, nice_classes |-> [list |-> <<>>], region |-> "",
     response |-> NoResponse]

-----------------------------------------------------------------------------
(* uk_checker_process.py: the UK search in a worker process *)

NoWorker == 0   \* "self.process = None"
NoQueue == 0    \* "self.input_queue = None"

\* UKCheckerProcess.__init__
NewManager ==
    [process |-> NoWorker, input_queue |-> NoQueue, output_queue |-> NoQueue,
     is_stopping |-> FALSE]

\* no method of the manager is running; seq counts the calls made so far
NoCall == [op |-> "none", seq |-> 0]

\* the module is loaded and no UKCheckerProcess is in use
NoManager ==
    /\ uk = NewManager
    /\ workers = <<>>
    /\ queues = <<>>
    /\ call = NoCall

\* the messages of the input queue: a request or the string "STOP"
Request(seq) == [query |-> seq]
StopSignal == [stop |-> TRUE]
IsStop(message) == "stop" \in DOMAIN message

\* the messages of the output queue; served names the request the worker
\* was serving when it wrote the message
WorkerResult(success, seq) ==
    [success |-> success, kind |-> IF success THEN "result" ELSE "worker_error",
     served |-> seq]
InitFailure == [success |-> FALSE, kind |-> "init_failure", served |-> 0]

\* the dictionaries search_trademark builds itself
ManagerError(kind) == [success |-> FALSE, kind |-> kind, served |-> 0]

\* process.is_alive()
is_alive(ws, w) == ws[w].state # "exited"

\* a manager that spawns a worker at every start_process
ShouldSpawnAlways(process, ws) == TRUE

\* "if self.process is None or not self.process.is_alive()"
ShouldSpawn(process, ws) == process = NoWorker \/ ~is_alive(ws, process)

\* run_uk_process: two new queues and a started process
NewWorker(qs) ==
    [state |-> "init", input |-> Len(qs) + 1, output |-> Len(qs) + 2, serving |-> 0]

-----------------------------------------------------------------------------
(* The state machine *)

NewHist ==
    [stale_reset |-> FALSE,      \* the invocation reset a stale state
     overlap |-> FALSE,          \* another invocation has held the lock since it began
     checks |-> 0,               \* check_trademark calls it made
     called |-> <<>>,            \* sources called by its current check_trademark
     tmdn_calls |-> 0,           \* TMDN requests of its current check_trademark
     wipo_attempts |-> 0,        \* WIPO attempts of its current check_trademark
     tmdn_reply |-> ErrorReply("none"),  \* what TMDN answered in the current check
     wipo_last |-> "none",       \* how the latest WIPO attempt of the current check ended
     wipo_reply |-> ErrorReply("none"),  \* what WIPO returned to the current check
     tmdn_start |-> 0,           \* when the TMDN call of the current check was released
     waits |-> 0,                \* rate-limit acquisitions it made
     entry_tmdn_time |-> 0]      \* last_tmdn_query_time when the current check began

Init ==
    /\ now = StaleCeiling + 1
    /\ query_lock = Free
    /\ current_query = [is_querying |-> FALSE, start_time |-> 0]
    /\ last_tmdn_query_time = 0
    /\ checked_names = CheckedNamesFile
    /\ df = NoRecords
    /\ lookup = NoLookup
    /\ NoManager
    /\ pc = [p \in Procs |-> "idle"]
    /\ names = [p \in Procs |-> <<>>]
    /\ nice_class = [p \in Procs |-> DefaultNiceClass]
    /\ lock_acquired = [p \in Procs |-> FALSE]
    /\ name_list = [p \in Procs |-> <<>>]
    /\ valid_names = [p \in Procs |-> <<>>]
    /\ results = [p \in Procs |-> <<>>]
    /\ idx = [p \in Procs |-> 0]
    /\ ret = [p \in Procs |-> NoReturn]
    /\ ct = [p \in Procs |-> NoFrame]
    /\ hist = [p \in Procs |-> NewHist]

\* the clock is observed at instants more than the stale ceiling apart
TicksTaken == (now - (StaleCeiling + 1)) \div (StaleCeiling + 1)

\* an invocation is asleep, or is about to compare the age of a running query
\* that is not yet stale: the instants at which the passing of time shows
AwaitsClock(p) ==
    \/ pc[p] \in {"rl_sleep", "wipo_sleep"} /\ now < ct[p].wake
    \/ pc[p] = "stale_check" /\ ~(now - current_query.start_time > StaleCeiling)

\* time passes; behaviours that differ only by a shift of all the times read
\* are told by one of them, in which time advances when an invocation waits
Tick ==
    /\ TicksTaken < MaxTicks
    /\ \E p \in Procs : AwaitsClock(p)
    /\ now' = now + (StaleCeiling + 1)
    /\ UNCHANGED <<globals, pc, locals>>

\* a return that skips the "finally" clause
AfterReturnNoFinally(acquired) == "done"

\* the "finally" clause runs on every return
AfterReturn(acquired) == IF acquired THEN "fin_reset_flag" ELSE "done"

\* a lock that is always granted
TryAcquireAlways(lock) == TRUE

\* query_lock.acquire(blocking=False)
TryAcquire(lock) == lock = Free

\* a request arrives: Gradio calls process_query(names, nice_class)
Start(p) ==
    /\ pc[p] \in {"idle", "done"}
    /\ names' = [names EXCEPT ![p] = <<>>]
    /\ nice_class' = [nice_class EXCEPT ![p] = DefaultNiceClass]
    /\ pc' = [pc EXCEPT ![p] = "check"]
    /\ lock_acquired' = [lock_acquired EXCEPT ![p] = FALSE]
    /\ name_list' = [name_list EXCEPT ![p] = <<>>]
    /\ valid_names' = [valid_names EXCEPT ![p] = <<>>]
    /\ results' = [results EXCEPT ![p] = <<>>]
    /\ idx' = [idx EXCEPT ![p] = 0]
    /\ ret' = [ret EXCEPT ![p] = NoReturn]
    /\ ct' = [ct EXCEPT ![p] = NoFrame]
    /\ hist' = [hist EXCEPT ![p] = [NewHist EXCEPT !.overlap = query_lock \notin {Free, p}]]
    /\ UNCHANGED <<now, globals>>

\* if current_query["is_querying"]:
CheckQuerying(p) ==
    /\ pc[p] = "check"
    /\ pc' = [pc EXCEPT ![p] = IF current_query.is_querying THEN "stale_check" ELSE "acquire"]
    /\ UNCHANGED <<now, globals, locals>>

\* if time.time() - current_query["start_time"] > 300: ... else: return busy
StaleCheck(p) ==
    /\ pc[p] = "stale_check"
    /\ IF now - current_query.start_time > StaleCeiling
       THEN /\ pc' = [pc EXCEPT ![p] = "reset_flag"]
            /\ hist' = [hist EXCEPT ![p].stale_reset = TRUE]
            /\ ret' = ret
       ELSE /\ ret' = [ret EXCEPT ![p] = Returned("busy")]
            /\ pc' = [pc EXCEPT ![p] = AfterReturn(lock_acquired[p])]
            /\ hist' = hist
    /\ UNCHANGED <<now, globals, names, nice_class, lock_acquired, name_list, valid_names, results, idx, ct>>

\* reset_query_state(), first assignment
ResetFlag(p) ==
    /\ pc[p] = "reset_flag"
    /\ current_query' = [current_query EXCEPT !.is_querying = FALSE]
    /\ pc' = [pc EXCEPT ![p] = "reset_start"]
    /\ UNCHANGED <<now, query_lock, last_tmdn_query_time, checked_names, df, lookup, ukvars, locals>>

\* reset_query_state(), second assignment
ResetStart(p) ==
    /\ pc[p] = "reset_start"
    /\ current_query' = [current_query EXCEPT !.start_time = 0]
    /\ pc' = [pc EXCEPT ![p] = "acquire"]
    /\ UNCHANGED <<now, query_lock, last_tmdn_query_time, checked_names, df, lookup, ukvars, locals>>

\* if not query_lock.acquire(blocking=False): return busy
Acquire(p) ==
    /\ pc[p] = "acquire"
    /\ IF TryAcquire(query_lock)
       THEN /\ query_lock' = p
            /\ lock_acquired' = [lock_acquired EXCEPT ![p] = TRUE]
            /\ pc' = [pc EXCEPT ![p] = "set_flag"]
            /\ ret' = ret
       ELSE /\ ret' = [ret EXCEPT ![p] = Returned("busy")]
            /\ pc' = [pc EXCEPT ![p] = AfterReturn(lock_acquired[p])]
            /\ UNCHANGED <<query_lock, lock_acquired>>
    /\ UNCHANGED <<now, current_query, last_tmdn_query_time, checked_names, df, lookup, ukvars,
                   names, nice_class, name_list, valid_names, results, idx, ct, hist>>

\* current_query["is_querying"] = True
SetFlag(p) ==
    /\ pc[p] = "set_flag"
    /\ current_query' = [current_query EXCEPT !.is_querying = TRUE]
    /\ pc' = [pc EXCEPT ![p] = "set_start"]
    /\ UNCHANGED <<now, query_lock, last_tmdn_query_time, checked_names, df, lookup, ukvars, locals>>

\* current_query["start_time"] = time.time()
SetStart(p) ==
    /\ pc[p] = "set_start"
    /\ current_query' = [current_query EXCEPT !.start_time = now]
    /\ pc' = [pc EXCEPT ![p] = "parse"]
    /\ UNCHANGED <<now, query_lock, last_tmdn_query_time, checked_names, df, lookup, ukvars, locals>>

\* the text is read (the model binds the argument here, where it is first
\* used), an empty or an over-long batch is rejected, the names are validated
Parse(p) ==
    /\ pc[p] = "parse"
    /\ \E batch \in BatchPool :
       LET list == parse_input_names(batch)
       IN  /\ names' = [names EXCEPT ![p] = batch]
           /\ name_list' = [name_list EXCEPT ![p] = list]
           /\ IF list = <<>>
              THEN /\ ret' = [ret EXCEPT ![p] = Returned("empty")]
                   /\ pc' = [pc EXCEPT ![p] = AfterReturn(lock_acquired[p])]
                   /\ UNCHANGED <<valid_names, results, idx>>
              ELSE IF OverLimit(list)
              THEN /\ ret' = [ret EXCEPT ![p] = Returned("over_limit")]
                   /\ pc' = [pc EXCEPT ![p] = AfterReturn(lock_acquired[p])]
                   /\ UNCHANGED <<valid_names, results, idx>>
              ELSE /\ results' = [results EXCEPT ![p] = InvalidResults(list)]
                   /\ valid_names' = [valid_names EXCEPT ![p] = ValidNames(list)]
                   /\ idx' = [idx EXCEPT ![p] = 1]
                   /\ pc' = [pc EXCEPT ![p] =
                                IF ValidNames(list) # <<>> THEN "progress" ELSE "format"]
                   /\ ret' = ret
    /\ UNCHANGED <<now, globals, nice_class, lock_acquired, ct, hist>>

\* progress(i/total, ...) returns, and check_trademark(name, nice_class) begins
Progress(p) ==
    /\ pc[p] = "progress"
    /\ ct' = [ct EXCEPT ![p] = NewFrame(valid_names[p][idx[p]])]
    /\ hist' = [hist EXCEPT ![p].checks = @ + 1,
                            ![p].called = <<>>,
                            ![p].tmdn_calls = 0,
                            ![p].wipo_attempts = 0,
                            ![p].tmdn_reply = ErrorReply("none"),
                            ![p].wipo_last = "none",
                            ![p].wipo_reply = ErrorReply("none"),
                            ![p].tmdn_start = 0,
                            ![p].entry_tmdn_time = last_tmdn_query_time]
    /\ pc' = [pc EXCEPT ![p] = "ct_local"]
    /\ UNCHANGED <<now, globals, names, nice_class, lock_acquired, name_list, valid_names, results, idx, ret>>

\* the progress callback of the front end raises: "except Exception as e"
ProgressRaises(p) ==
    /\ pc[p] = "progress"
    /\ ret' = [ret EXCEPT ![p] = Returned("exception")]
    /\ pc' = [pc EXCEPT ![p] = AfterReturn(lock_acquired[p])]
    /\ UNCHANGED <<now, globals, names, nice_class, lock_acquired, name_list, valid_names, results, idx, ct, hist>>

\* if self._check_local_database(query_name): return the local-hit result
CtLocal(p) ==
    /\ pc[p] = "ct_local"
    /\ \E outcome \in LocalOutcomes :
          LET found == check_local_database(ct[p].query_name, checked_names, outcome)
          IN  /\ ct' = [ct EXCEPT ![p].result =
                                    IF found THEN [@ EXCEPT !.in_local_db = TRUE] ELSE @]
              /\ pc' = [pc EXCEPT ![p] = AfterLocal(found)]
    /\ UNCHANGED <<now, globals, names, nice_class, lock_acquired, name_list, valid_names, results, idx, ret, hist>>

\* _wait_for_tmdn_rate_limit: read the clock and decide whether to sleep
RlRead(p) ==
    /\ pc[p] = "rl_read"
    /\ LET time_since_last_query == now - last_tmdn_query_time
       IN  IF MustWait(time_since_last_query)
           THEN /\ ct' = [ct EXCEPT ![p].wake = now + (MinTmdnInterval - time_since_last_query)]
                /\ pc' = [pc EXCEPT ![p] = "rl_sleep"]
           ELSE /\ ct' = ct
                /\ pc' = [pc EXCEPT ![p] = "rl_set"]
    /\ hist' = [hist EXCEPT ![p].waits = @ + 1]
    /\ UNCHANGED <<now, globals, names, nice_class, lock_acquired, name_list, valid_names, results, idx, ret>>

\* time.sleep(1 - time_since_last_query) returns
RlSleep(p) ==
    /\ pc[p] = "rl_sleep"
    /\ now >= ct[p].wake
    /\ pc' = [pc EXCEPT ![p] = "rl_set"]
    /\ UNCHANGED <<now, globals, locals>>

\* self.last_tmdn_query_time = time.time()
RlSet(p) ==
    /\ pc[p] = "rl_set"
    /\ last_tmdn_query_time' = now
    /\ hist' = [hist EXCEPT ![p].tmdn_start = now]
    /\ pc' = [pc EXCEPT ![p] = NextSource(ct[p].result.search_source)]
    /\ UNCHANGED <<now, query_lock, current_query, checked_names, df, lookup, ukvars, names,
                   nice_class, lock_acquired, name_list, valid_names, results, idx, ret, ct>>

\* the TMDN search returns; its result is merged and classified
TmdnCall(p) ==
    /\ pc[p] = "tmdn"
    /\ \E reply \in TmdnReplies :
          /\ hist' = [hist EXCEPT ![p].called = Append(@, TMDN),
                                  ![p].tmdn_calls = @ + 1,
                                  ![p].tmdn_reply = reply]
          /\ IF reply.status # "success"
             THEN /\ ct' = [ct EXCEPT ![p].result = Failed(@, "tmdn_failed")]
                  /\ pc' = [pc EXCEPT ![p] = "ct_return"]
             ELSE LET exact == check_exact_match(ct[p].query_name, reply.brands)
                      similar == check_similar_match(ct[p].query_name, reply.brands)
                  IN  /\ ct' = [ct EXCEPT ![p].result = Merged(@, reply, TMDN),
                                          ![p].exact_matches = exact,
                                          ![p].similar_matches = similar]
                      /\ pc' = [pc EXCEPT ![p] =
                                   IF NeedsWipo(exact, similar)
                                   THEN NextSource(Merged(ct[p].result, reply, TMDN).search_source)
                                   ELSE "ct_final"]
    /\ UNCHANGED <<now, globals, names, nice_class, lock_acquired, name_list, valid_names, results, idx, ret>>

\* what WIPOChecker.search_trademark returns when its last attempt ends: the
\* dictionary of the page, the error dictionary of the "except" clause, or
\* nothing when _try_get_page_content returned False and the loop ran out
search_trademark_returns(outcome, page) ==
    CASE outcome = "page" -> page
      [] outcome = "raise" -> ErrorReply("wipo_error")
      [] OTHER -> PyNone

\* one attempt of WIPOChecker.search_trademark, and what check_trademark
\* does with the value the call returns
WipoAttempt(p) ==
    /\ pc[p] = "wipo"
    /\ \E outcome \in WipoOutcomes :
          /\ outcome # "page" =>
                hist' = [hist EXCEPT
                           ![p].called = IF ct[p].attempt = 0 THEN Append(@, WIPO) ELSE @,
                           ![p].wipo_attempts = @ + 1,
                           ![p].wipo_last = outcome,
                           ![p].wipo_reply =
                               IF ct[p].attempt = MaxRetries - 1
                               THEN search_trademark_returns(outcome, @)
                               ELSE @]
          /\ CASE outcome = "page" ->
                 \* the attempt returns a success dictionary
                 \E reply \in WipoPages :
                    /\ hist' = [hist EXCEPT
                                  ![p].called = IF ct[p].attempt = 0 THEN Append(@, WIPO) ELSE @,
                                  ![p].wipo_attempts = @ + 1,
                                  ![p].wipo_last = outcome,
                                  ![p].wipo_reply = search_trademark_returns(outcome, reply)]
                    /\ ct' = [ct EXCEPT
                                ![p].result = Merged(@, reply, WIPO),
                                ![p].exact_matches =
                                    @ \o check_exact_match(ct[p].query_name, reply.brands),
                                ![p].similar_matches =
                                    @ \o check_similar_match(ct[p].query_name, reply.brands)]
                    /\ pc' = [pc EXCEPT ![p] = "ct_final"]
            [] outcome = "raise" ->
                 \* the last attempt returns an error dictionary, an earlier one retries
                 IF ct[p].attempt = MaxRetries - 1
                 THEN /\ ct' = [ct EXCEPT ![p].result = Failed(@, "wipo_failed")]
                      /\ pc' = [pc EXCEPT ![p] = "ct_return"]
                 ELSE /\ ct' = [ct EXCEPT ![p].attempt = @ + 1, ![p].wake = now + RetryDelay]
                      /\ pc' = [pc EXCEPT ![p] = "wipo_sleep"]
            [] outcome = "no_content" ->
                 \* the loop goes on; after the last attempt the function returns
                 \* None and wipo_result["status"] raises inside check_trademark
                 IF ct[p].attempt = MaxRetries - 1
                 THEN /\ ct' = [ct EXCEPT ![p].result = Failed(@, "wipo_raised")]
                      /\ pc' = [pc EXCEPT ![p] = "ct_return"]
                 ELSE /\ ct' = [ct EXCEPT ![p].attempt = @ + 1, ![p].wake = now + RetryDelay]
                      /\ pc' = [pc EXCEPT ![p] = "wipo_sleep"]
    /\ UNCHANGED <<now, globals, names, nice_class, lock_acquired, name_list, valid_names, results, idx, ret>>

\* time.sleep(self.retry_delay) returns
WipoSleep(p) ==
    /\ pc[p] = "wipo_sleep"
    /\ now >= ct[p].wake
    /\ pc' = [pc EXCEPT ![p] = "wipo"]
    /\ UNCHANGED <<now, globals, locals>>

\* the displayed count and the match fields are filled in
CtFinal(p) ==
    /\ pc[p] = "ct_final"
    /\ \E final \in Finalized(ct[p].result, ct[p].exact_matches, ct[p].similar_matches) :
          ct' = [ct EXCEPT ![p].result = final]
    /\ pc' = [pc EXCEPT ![p] = "ct_return"]
    /\ UNCHANGED <<now, globals, names, nice_class, lock_acquired, name_list, valid_names, results, idx, ret, hist>>

\* a loop that stops at the first error result
AfterCheckStopOnError(result, more) ==
    IF more /\ result.status # "error" THEN "progress" ELSE "format"

\* "for i, name in enumerate(valid_names, 1)": the loop goes on whatever
\* check_trademark returned
AfterCheck(result, more) == IF more THEN "progress" ELSE "format"

\* check_trademark returns: results.append(result), next name
CtReturn(p) ==
    /\ pc[p] = "ct_return"
    /\ results' = [results EXCEPT ![p] = Append(@, ct[p].result)]
    /\ idx' = [idx EXCEPT ![p] = @ + 1]
    /\ pc' = [pc EXCEPT ![p] = AfterCheck(ct[p].result, idx[p] < Len(valid_names[p]))]
    /\ UNCHANGED <<now, globals, names, nice_class, lock_acquired, name_list, valid_names, ret, ct, hist>>

\* the details and the summary are built and returned
Format(p) ==
    /\ pc[p] = "format"
    /\ LET detailed_info == format_detailed_results(results[p])
           dropdown_choices == [i \in 1..Len(detailed_info) |-> detailed_info[i].query_name]
       IN  ret' = [ret EXCEPT ![p] =
                      IF AllFailed(results[p])
                      THEN Returned("all_failed")
                      ELSE [kind |-> "summary",
                            summary |-> format_summary(results[p]),
                            choices |-> dropdown_choices,
                            detailed_info |-> detailed_info]]
    /\ pc' = [pc EXCEPT ![p] = AfterReturn(lock_acquired[p])]
    /\ UNCHANGED <<now, globals, names, nice_class, lock_acquired, name_list, valid_names, results, idx, ct, hist>>

\* finally: reset_query_state(), first assignment
FinResetFlag(p) ==
    /\ pc[p] = "fin_reset_flag"
    /\ current_query' = [current_query EXCEPT !.is_querying = FALSE]
    /\ pc' = [pc EXCEPT ![p] = "fin_reset_start"]
    /\ UNCHANGED <<now, query_lock, last_tmdn_query_time, checked_names, df, lookup, ukvars, locals>>

\* finally: reset_query_state(), second assignment
FinResetStart(p) ==
    /\ pc[p] = "fin_reset_start"
    /\ current_query' = [current_query EXCEPT !.start_time = 0]
    /\ pc' = [pc EXCEPT ![p] = "fin_release"]
    /\ UNCHANGED <<now, query_lock, last_tmdn_query_time, checked_names, df, lookup, ukvars, locals>>

\* finally: query_lock.release(), and process_query returns; its frame is
\* discarded and only the kind of the returned value is remembered
FinRelease(p) ==
    /\ pc[p] = "fin_release"
    /\ query_lock' = Free
    /\ pc' = [pc EXCEPT ![p] = "done"]
    /\ ret' = [ret EXCEPT ![p] = Returned(@.kind)]
    /\ names' = [names EXCEPT ![p] = <<>>]
    /\ name_list' = [name_list EXCEPT ![p] = <<>>]
    /\ valid_names' = [valid_names EXCEPT ![p] = <<>>]
    /\ results' = [results EXCEPT ![p] = <<>>]
    /\ idx' = [idx EXCEPT ![p] = 0]
    /\ ct' = [ct EXCEPT ![p] = NoFrame]
    /\ hist' = [q \in Procs |-> IF q = p THEN NewHist ELSE [hist[q] EXCEPT !.overlap = FALSE]]
    /\ UNCHANGED <<now, current_query, last_tmdn_query_time, checked_names, df, lookup, ukvars,
                   nice_class, lock_acquired>>

Next ==
    \/ Tick
    \/ \E p \in Procs :
          \/ Start(p) \/ CheckQuerying(p) \/ StaleCheck(p)
          \/ ResetFlag(p) \/ ResetStart(p) \/ Acquire(p)
          \/ SetFlag(p) \/ SetStart(p) \/ Parse(p)
          \/ Progress(p) \/ ProgressRaises(p)
          \/ CtLocal(p) \/ RlRead(p) \/ RlSleep(p) \/ RlSet(p)
          \/ TmdnCall(p) \/ WipoAttempt(p) \/ WipoSleep(p)
          \/ CtFinal(p) \/ CtReturn(p) \/ Format(p)
          \/ FinResetFlag(p) \/ FinResetStart(p) \/ FinRelease(p)

Spec == Init /\ [][Next]_vars

-----------------------------------------------------------------------------
(* The match classifier called on its own: a candidate and a list of marks *)

InitClassifier ==
    /\ now = StaleCeiling + 1
    /\ query_lock = Free
    /\ current_query = [is_querying |-> FALSE, start_time |-> 0]
    /\ last_tmdn_query_time = 0
    /\ checked_names = CheckedNamesFile
    /\ df = NoRecords
    /\ lookup = NoLookup
    /\ NoManager
    /\ pc \in {[p \in Procs |-> IF p = q THEN "classify" ELSE "idle"] : q \in Procs}
    /\ names = [p \in Procs |-> <<>>]
    /\ nice_class = [p \in Procs |-> DefaultNiceClass]
    /\ lock_acquired = [p \in Procs |-> FALSE]
    /\ name_list = [p \in Procs |-> <<>>]
    /\ valid_names = [p \in Procs |-> <<>>]
    /\ results = [p \in Procs |-> <<>>]
    /\ idx = [p \in Procs |-> 0]
    /\ ret = [p \in Procs |-> NoReturn]
    /\ \E query_name \in CandidatePool, brand_names \in MarkLists :
          ct = [p \in Procs |->
                  IF pc[p] = "classify"
                  THEN [NewFrame(query_name) EXCEPT !.result.brands = brand_names]
                  ELSE NoFrame]
    /\ hist = [p \in Procs |-> NewHist]

\* exact_matches = self._check_exact_match(query_name, brands)
\* similar_matches = self._check_similar_match(query_name, brands)
Classify(p) ==
    /\ pc[p] = "classify"
    /\ ct' = [ct EXCEPT
                ![p].exact_matches = check_exact_match(ct[p].query_name, ct[p].result.brands),
                ![p].similar_matches = check_similar_match(ct[p].query_name, ct[p].result.brands)]
    /\ pc' = [pc EXCEPT ![p] = "ct_final"]
    /\ UNCHANGED <<now, globals, names, nice_class, lock_acquired, name_list, valid_names, results, idx, ret, hist>>

NextClassifier == \E p \in Procs : Classify(p) \/ CtFinal(p)

SpecClassifier == InitClassifier /\ [][NextClassifier]_vars

-----------------------------------------------------------------------------
(* TrademarkChecker.check_trademarks called on its own with a list of names *)

\* the lists of names check_trademarks is called with
NameListPool ==
    { <<>>, <<L_ab>>, <<L_ab, L_Ab>>,
      [i \in 1..(MaxNamesPerBatch + 1) |-> L_ab] }

\* a limit that rejects nothing
TooManyNever(list) == FALSE

\* "if len(names) > 20"
TooMany(list) == Len(list) > MaxNamesPerBatch

InitBatch ==
    /\ now = StaleCeiling + 1
    /\ query_lock = Free
    /\ current_query = [is_querying |-> FALSE, start_time |-> 0]
    /\ last_tmdn_query_time = 0
    /\ checked_names = CheckedNamesFile
    /\ df = NoRecords
    /\ lookup = NoLookup
    /\ NoManager
    /\ pc \in {[p \in Procs |-> IF p = q THEN "bt_call" ELSE "idle"] : q \in Procs}
    /\ nice_class \in {[p \in Procs |-> IF pc[p] = "bt_call" THEN nc ELSE DefaultNiceClass] :
                          nc \in NiceClasses}
    /\ names \in {[p \in Procs |-> IF pc[p] = "bt_call" THEN list ELSE <<>>] :
                     list \in NameListPool}
    /\ lock_acquired = [p \in Procs |-> FALSE]
    /\ name_list = [p \in Procs |-> <<>>]
    /\ valid_names = [p \in Procs |-> <<>>]
    /\ results = [p \in Procs |-> <<>>]
    /\ idx = [p \in Procs |-> 0]
    /\ ret = [p \in Procs |-> NoReturn]
    /\ ct = [p \in Procs |-> NoFrame]
    /\ hist = [p \in Procs |-> NewHist]

\* if len(names) > 20: raise ValueError(...); results = []
BatchCall(p) ==
    /\ pc[p] = "bt_call"
    /\ IF TooMany(names[p])
       THEN /\ ret' = [ret EXCEPT ![p] = Returned("value_error")]
            /\ pc' = [pc EXCEPT ![p] = "bt_done"]
            /\ idx' = idx
       ELSE /\ idx' = [idx EXCEPT ![p] = 1]
            /\ pc' = [pc EXCEPT ![p] = "bt_next"]
            /\ ret' = ret
    /\ UNCHANGED <<now, globals, names, nice_class, lock_acquired, name_list, valid_names, results, ct, hist>>

\* for name in names: result = self.check_trademark(name, nice_class)
BatchNext(p) ==
    /\ pc[p] = "bt_next"
    /\ IF idx[p] <= Len(names[p])
       THEN /\ ct' = [ct EXCEPT ![p] = NewFrame(names[p][idx[p]])]
            /\ hist' = [hist EXCEPT ![p].checks = @ + 1,
                                    ![p].called = <<>>,
                                    ![p].tmdn_calls = 0,
                                    ![p].wipo_attempts = 0,
                                    ![p].tmdn_reply = ErrorReply("none"),
                                    ![p].wipo_last = "none",
                                    ![p].wipo_reply = ErrorReply("none"),
                            ![p].tmdn_start = 0,
                                    ![p].entry_tmdn_time = last_tmdn_query_time]
            /\ pc' = [pc EXCEPT ![p] = "ct_local"]
            /\ ret' = ret
       ELSE /\ ret' = [ret EXCEPT ![p] = Returned("results")]
            /\ pc' = [pc EXCEPT ![p] = "bt_done"]
            /\ UNCHANGED <<ct, hist>>
    /\ UNCHANGED <<now, globals, names, nice_class, lock_acquired, name_list, valid_names, results, idx>>

\* results.append(result)
BatchAppend(p) ==
    /\ pc[p] = "ct_return"
    /\ results' = [results EXCEPT ![p] = Append(@, ct[p].result)]
    /\ idx' = [idx EXCEPT ![p] = @ + 1]
    /\ pc' = [pc EXCEPT ![p] = "bt_next"]
    /\ UNCHANGED <<now, globals, names, nice_class, lock_acquired, name_list, valid_names, ret, ct, hist>>

NextBatch ==
    \/ Tick
    \/ \E p \in Procs :
          \/ BatchCall(p) \/ BatchNext(p) \/ BatchAppend(p)
          \/ CtLocal(p) \/ RlRead(p) \/ RlSleep(p) \/ RlSet(p)
          \/ TmdnCall(p) \/ WipoAttempt(p) \/ WipoSleep(p) \/ CtFinal(p)

SpecBatch == InitBatch /\ [][NextBatch]_vars

-----------------------------------------------------------------------------
(* validate_name called on its own with a raw text *)

RawChars == {"a", "A", "1", " ", "!"}

\* texts around the length limit
Repeat(c, n) == [i \in 1..n |-> c]
RawPool ==
    UNION {[1..n -> RawChars] : n \in 0..MaxRawLen}
      \cup { Repeat("a", MaxNameLength),
              Repeat("a", MaxNameLength + 1),
              Repeat("a", MaxNameLength) \o <<"!">>,
              <<"a", " ">> \o Repeat("a", MaxNameLength),
              <<" ">> \o Repeat("a", MaxNameLength) \o <<" ">> }

InitValidator ==
    /\ now = StaleCeiling + 1
    /\ query_lock = Free
    /\ current_query = [is_querying |-> FALSE, start_time |-> 0]
    /\ last_tmdn_query_time = 0
    /\ checked_names = CheckedNamesFile
    /\ df = NoRecords
    /\ lookup = NoLookup
    /\ NoManager
    /\ pc \in {[p \in Procs |-> IF p = q THEN "validate" ELSE "idle"] : q \in Procs}
    /\ names \in {[p \in Procs |-> IF pc[p] = "validate" THEN <<raw>> ELSE <<>>] :
                     raw \in RawPool}
    /\ nice_class = [p \in Procs |-> DefaultNiceClass]
    /\ lock_acquired = [p \in Procs |-> FALSE]
    /\ name_list = [p \in Procs |-> <<>>]
    /\ valid_names = [p \in Procs |-> <<>>]
    /\ results = [p \in Procs |-> <<>>]
    /\ idx = [p \in Procs |-> 0]
    /\ ret = [p \in Procs |-> NoReturn]
    /\ ct = [p \in Procs |-> NoFrame]
    /\ hist = [p \in Procs |-> NewHist]

\* is_valid, validated_name = validate_name(name)
Validate(p) ==
    /\ pc[p] = "validate"
    /\ LET v == validate_name(names[p][1])
       IN  ret' = [ret EXCEPT ![p] =
                      [kind |-> "validated", is_valid |-> v.is_valid, value |-> v.value]]
    /\ pc' = [pc EXCEPT ![p] = "validated"]
    /\ UNCHANGED <<now, globals, names, nice_class, lock_acquired, name_list, valid_names,
                   results, idx, ct, hist>>

NextValidator == \E p \in Procs : Validate(p)

SpecValidator == InitValidator /\ [][NextValidator]_vars

-----------------------------------------------------------------------------
(* LocalDBChecker.search_trademark called on a loaded database *)

\* the rows of checked_name.csv as text cells; an empty class cell is a
\* missing value
CsvRows ==
    [name : {<<"a", "b">>, <<"A", "b", " ">>},
     region : {"US", "EU"},
     nice_class : {"14", "20", ""}]

CsvFiles == {<<>>} \cup {<<r>> : r \in CsvRows} \cup {<<r1, r2>> : r1, r2 \in CsvRows}

\* pd.read_csv: a column of whole numbers is read as int64, and as float64
\* when one of its cells is missing (the missing cell becomes NaN)
read_csv(file) ==
    LET dtype == IF \E i \in 1..Len(file) : file[i].nice_class = ""
                 THEN "float64" ELSE "int64"
    IN  [i \in 1..Len(file) |->
            [name |-> file[i].name, region |-> file[i].region,
             nice_class |-> [dtype |-> dtype,
                             value |-> IF file[i].nice_class = "" THEN "nan"
                                       ELSE file[i].nice_class]]]

\* load_database: the frame of the file, or an empty frame when reading raises
load_database(file, readable) == IF readable THEN read_csv(file) ELSE NoRecords

\* .astype(str) of a class cell: "20" for the integer, "20.0" for the float
astype_str(cell) ==
    IF cell.dtype = "int64" THEN <<cell.value>>
    ELSE IF cell.value = "nan" THEN <<"nan">>
    ELSE <<cell.value, ".0">>

\* "if isinstance(nice_classes, str): nice_classes = [nice_classes]"
AsList(nice_classes) ==
    IF "str" \in DOMAIN nice_classes THEN <<nice_classes.str>> ELSE nice_classes.list

\* _create_response(query_name, nice_classes, region, found, matched_classes)
create_response(query_name, found, matched_classes) ==
    [query_name |-> query_name, status |-> "success", in_local_db |-> found,
     brands |-> IF found THEN <<query_name>> ELSE <<>>,
     total_found |-> IF found THEN 1 ELSE 0,
     matched_classes |-> IF found THEN matched_classes ELSE {}]

\* the body of LocalDBChecker.search_trademark
local_search(frame, query_name, nice_classes, region) ==
    LET classes == AsList(nice_classes) IN
    IF frame = NoRecords THEN create_response(query_name, FALSE, {})
    ELSE LET name == Strip(Lower(query_name))
             wanted == {<<classes[k]>> : k \in 1..Len(classes)}
             matches == {i \in 1..Len(frame) :
                            /\ Strip(Lower(frame[i].name)) = name
                            /\ astype_str(frame[i].nice_class) \in wanted}
         IN  IF matches # {}
             THEN create_response(name, TRUE,
                                  {astype_str(frame[i].nice_class) : i \in matches})
             ELSE create_response(name, FALSE, {})

\* the calls made: a name, one class as a string or a list of classes, a region
Lookups ==
    [query_name : {<<"a", "b">>, <<" ", "A", "B">>, <<"c">>},
     nice_classes : {[str |-> "20"], [list |-> <<"20">>], [list |-> <<"14", "21">>]},
     region : {"US", "US+EU"},
     response : {NoResponse}]

InitLocalDB ==
    /\ now = StaleCeiling + 1
    /\ query_lock = Free
    /\ current_query = [is_querying |-> FALSE, start_time |-> 0]
    /\ last_tmdn_query_time = 0
    /\ checked_names = CheckedNamesFile
    /\ df \in {load_database(file, readable) : file \in CsvFiles, readable \in BOOLEAN}
    /\ lookup \in Lookups
    /\ NoManager
    /\ pc \in {[p \in Procs |-> IF p = q THEN "db_search" ELSE "idle"] : q \in Procs}
    /\ names = [p \in Procs |-> <<>>]
    /\ nice_class = [p \in Procs |-> DefaultNiceClass]
    /\ lock_acquired = [p \in Procs |-> FALSE]
    /\ name_list = [p \in Procs |-> <<>>]
    /\ valid_names = [p \in Procs |-> <<>>]
    /\ results = [p \in Procs |-> <<>>]
    /\ idx = [p \in Procs |-> 0]
    /\ ret = [p \in Procs |-> NoReturn]
    /\ ct = [p \in Procs |-> NoFrame]
    /\ hist = [p \in Procs |-> NewHist]

\* result = local_db.search_trademark(query_name, nice_classes, region)
Search(p) ==
    /\ pc[p] = "db_search"
    /\ lookup' = [lookup EXCEPT !.response =
                      local_search(df, lookup.query_name, lookup.nice_classes, lookup.region)]
    /\ pc' = [pc EXCEPT ![p] = "db_done"]
    /\ UNCHANGED <<now, query_lock, current_query, last_tmdn_query_time, checked_names, df,
                   ukvars, locals>>

NextLocalDB == \E p \in Procs : Search(p)

SpecLocalDB == InitLocalDB /\ [][NextLocalDB]_vars

-----------------------------------------------------------------------------
(* Two check_trademark calls running at once on one TrademarkChecker *)

ConcurrentNames == {L_ab, <<"c", "d">>}

InitConcurrent ==
    /\ now = StaleCeiling + 1
    /\ query_lock = Free
    /\ current_query = [is_querying |-> FALSE, start_time |-> 0]
    /\ last_tmdn_query_time = 0
    /\ checked_names = CheckedNamesFile
    /\ df = NoRecords
    /\ lookup = NoLookup
    /\ NoManager
    /\ pc = [p \in Procs |-> "ct_local"]
    /\ names = [p \in Procs |-> <<>>]
    /\ nice_class = [p \in Procs |-> DefaultNiceClass]
    /\ lock_acquired = [p \in Procs |-> FALSE]
    /\ name_list = [p \in Procs |-> <<>>]
    /\ valid_names = [p \in Procs |-> <<>>]
    /\ results = [p \in Procs |-> <<>>]
    /\ idx = [p \in Procs |-> 0]
    /\ ret = [p \in Procs |-> NoReturn]
    /\ ct \in [Procs -> {NewFrame(n) : n \in ConcurrentNames}]
    /\ hist = [p \in Procs |-> [NewHist EXCEPT !.checks = 1]]

NextConcurrent ==
    \/ Tick
    \/ \E p \in Procs :
          \/ CtLocal(p) \/ RlRead(p) \/ RlSleep(p) \/ RlSet(p)
          \/ TmdnCall(p) \/ WipoAttempt(p) \/ WipoSleep(p) \/ CtFinal(p)

SpecConcurrent == InitConcurrent /\ [][NextConcurrent]_vars

-----------------------------------------------------------------------------
(* One caller using a UKCheckerProcess, and the workers it spawns *)

InitUK ==
    /\ now = StaleCeiling + 1
    /\ query_lock = Free
    /\ current_query = [is_querying |-> FALSE, start_time |-> 0]
    /\ last_tmdn_query_time = 0
    /\ checked_names = CheckedNamesFile
    /\ df = NoRecords
    /\ lookup = NoLookup
    /\ NoManager
    /\ pc \in {[p \in Procs |-> IF p = q THEN "uk_idle" ELSE "idle"] : q \in Procs}
    /\ names = [p \in Procs |-> <<>>]
    /\ nice_class = [p \in Procs |-> DefaultNiceClass]
    /\ lock_acquired = [p \in Procs |-> FALSE]
    /\ name_list = [p \in Procs |-> <<>>]
    /\ valid_names = [p \in Procs |-> <<>>]
    /\ results = [p \in Procs |-> <<>>]
    /\ idx = [p \in Procs |-> 0]
    /\ ret = [p \in Procs |-> NoReturn]
    /\ ct = [p \in Procs |-> NoFrame]
    /\ hist = [p \in Procs |-> NewHist]

\* a call spawns at most two workers: one on entry, one after a time-out
WorkerIds == 1..(2 * MaxCalls)

UKFrame == <<now, query_lock, current_query, last_tmdn_query_time, checked_names, df,
             lookup, locals>>

Put(qs, q, message) == [qs EXCEPT ![q] = Append(@, message)]
Pop(qs, q) == [qs EXCEPT ![q] = Tail(@)]

\* the caller calls start_process(), search_trademark(..) or stop_process()
UKCall(p) ==
    /\ pc[p] = "uk_idle"
    /\ call.seq < MaxCalls
    /\ \E op \in {"start_process", "search_trademark", "stop_process"} :
          /\ call' = [op |-> op, seq |-> call.seq + 1, query |-> call.seq + 1,
                      after_start |-> IF op = "search_trademark" THEN "st_put" ELSE "uk_idle",
                      after_stop |-> "uk_idle",
                      sent_to |-> NoWorker, result |-> ManagerError("none")]
          /\ pc' = [pc EXCEPT ![p] =
                       CASE op = "start_process" -> "sp_check"
                         [] op = "stop_process" -> "stop_check"
                         [] OTHER -> "st_entry"]
    /\ UNCHANGED <<uk, workers, queues, UKFrame>>

\* search_trademark: "if self._is_stopping: return {...}", else start_process()
SearchEntry(p) ==
    /\ pc[p] = "st_entry"
    /\ IF uk.is_stopping
       THEN /\ call' = [call EXCEPT !.result = ManagerError("stopping")]
            /\ pc' = [pc EXCEPT ![p] = "uk_idle"]
       ELSE /\ call' = call
            /\ pc' = [pc EXCEPT ![p] = "sp_check"]
    /\ UNCHANGED <<uk, workers, queues, UKFrame>>

\* start_process: return when stopping or when the worker is alive, else
\* self.process, self.input_queue, self.output_queue = run_uk_process()
StartProcess(p) ==
    /\ pc[p] = "sp_check"
    /\ IF ~uk.is_stopping /\ ShouldSpawn(uk.process, workers)
       THEN /\ workers' = Append(workers, NewWorker(queues))
            /\ queues' = queues \o <<<<>>, <<>>>>
            /\ uk' = [uk EXCEPT !.process = Len(workers) + 1,
                                !.input_queue = Len(queues) + 1,
                                !.output_queue = Len(queues) + 2]
            /\ pc' = [pc EXCEPT ![p] = "sp_wait"]
       ELSE /\ pc' = [pc EXCEPT ![p] = call.after_start]
            /\ UNCHANGED <<uk, workers, queues>>
    /\ UNCHANGED <<call, UKFrame>>

\* start_process: init_result = self.output_queue.get(timeout=5); a failure
\* message raises RuntimeError, which search_trademark turns into a result
StartWait(p) ==
    /\ pc[p] = "sp_wait"
    /\ IF queues[uk.output_queue] # <<>>
       THEN /\ queues' = Pop(queues, uk.output_queue)
            /\ IF ~Head(queues[uk.output_queue]).success
               THEN /\ call' = [call EXCEPT !.result =
                                   ManagerError(IF call.op = "start_process"
                                                THEN "raised" ELSE "request_error")]
                    /\ pc' = [pc EXCEPT ![p] = "uk_idle"]
               ELSE /\ call' = call
                    /\ pc' = [pc EXCEPT ![p] = call.after_start]
       ELSE \* queue.Empty after 5 s: "pass"
            /\ pc' = [pc EXCEPT ![p] = call.after_start]
            /\ UNCHANGED <<queues, call>>
    /\ UNCHANGED <<uk, workers, UKFrame>>

\* search_trademark: self.input_queue.put({"query_name": .., "nice_classes": ..})
SearchPut(p) ==
    /\ pc[p] = "st_put"
    /\ IF uk.input_queue = NoQueue
       THEN \* None has no put: the exception is turned into a result
            /\ call' = [call EXCEPT !.result = ManagerError("request_error")]
            /\ pc' = [pc EXCEPT ![p] = "uk_idle"]
            /\ queues' = queues
       ELSE /\ queues' = Put(queues, uk.input_queue, Request(call.query))
            /\ call' = [call EXCEPT !.sent_to = uk.process]
            /\ pc' = [pc EXCEPT ![p] = "st_get"]
    /\ UNCHANGED <<uk, workers, UKFrame>>

\* search_trademark: result = self.output_queue.get(timeout=60); the
\* message is returned, or queue.Empty is raised after 60 s
SearchGet(p) ==
    /\ pc[p] = "st_get"
    /\ IF queues[uk.output_queue] # <<>>
       THEN /\ call' = [call EXCEPT !.result = Head(queues[uk.output_queue])]
            /\ queues' = Pop(queues, uk.output_queue)
            /\ pc' = [pc EXCEPT ![p] = "uk_idle"]
       ELSE /\ call' = [call EXCEPT !.after_stop = "sp_check",
                                    !.after_start = "st_timeout"]
            /\ pc' = [pc EXCEPT ![p] = "stop_check"]
            /\ queues' = queues
    /\ UNCHANGED <<uk, workers, UKFrame>>

\* stop_process: return when stopping; self._is_stopping = True; when the
\* worker is alive, self.input_queue.put("STOP")
StopBegin(p) ==
    /\ pc[p] = "stop_check"
    /\ IF uk.is_stopping
       THEN /\ pc' = [pc EXCEPT ![p] = call.after_stop]
            /\ UNCHANGED <<uk, queues>>
       ELSE /\ uk' = [uk EXCEPT !.is_stopping = TRUE]
            /\ queues' = IF uk.process # NoWorker /\ is_alive(workers, uk.process)
                          THEN Put(queues, uk.input_queue, StopSignal)
                          ELSE queues
            /\ pc' = [pc EXCEPT ![p] = "stop_join"]
    /\ UNCHANGED <<workers, call, UKFrame>>

\* stop_process: the three join(timeout=2) are over, whether the worker has
\* exited or not; finally: self._is_stopping = False
StopEnd(p) ==
    /\ pc[p] = "stop_join"
    /\ uk' = [uk EXCEPT !.is_stopping = FALSE]
    /\ pc' = [pc EXCEPT ![p] = call.after_stop]
    /\ UNCHANGED <<workers, queues, call, UKFrame>>

\* search_trademark returns the time-out dictionary after the restart
SearchTimeout(p) ==
    /\ pc[p] = "st_timeout"
    /\ call' = [call EXCEPT !.result = ManagerError("timeout")]
    /\ pc' = [pc EXCEPT ![p] = "uk_idle"]
    /\ UNCHANGED <<uk, workers, queues, UKFrame>>

\* uk_checker_process: checker = UKChecker() succeeds, or it raises, the
\* failure is written to the output queue and the process ends
WorkerInit(w) ==
    /\ w \in DOMAIN workers
    /\ workers[w].state = "init"
    /\ \/ /\ workers' = [workers EXCEPT ![w].state = "idle"]
          /\ queues' = queues
       \/ /\ workers' = [workers EXCEPT ![w].state = "exited"]
          /\ queues' = Put(queues, workers[w].output, InitFailure)
    /\ UNCHANGED <<uk, call, pc, UKFrame>>

\* uk_checker_process: query_data = input_queue.get(timeout=1); "STOP" ends
\* the loop, a request starts checker.search_trademark
WorkerGet(w) ==
    /\ w \in DOMAIN workers
    /\ workers[w].state = "idle"
    /\ queues[workers[w].input] # <<>>
    /\ LET message == Head(queues[workers[w].input])
       IN  workers' = IF IsStop(message)
                      THEN [workers EXCEPT ![w].state = "exited"]
                      ELSE [workers EXCEPT ![w].state = "busy", ![w].serving = message.query]
    /\ queues' = Pop(queues, workers[w].input)
    /\ UNCHANGED <<uk, call, pc, UKFrame>>

\* uk_checker_process: the search returns or raises, and the result or the
\* error dictionary is written to the output queue
WorkerFinish(w) ==
    /\ w \in DOMAIN workers
    /\ workers[w].state = "busy"
    /\ \E success \in BOOLEAN :
          queues' = Put(queues, workers[w].output, WorkerResult(success, workers[w].serving))
    /\ workers' = [workers EXCEPT ![w].state = "idle", ![w].serving = 0]
    /\ UNCHANGED <<uk, call, pc, UKFrame>>

NextUK ==
    \/ \E p \in Procs :
          \/ UKCall(p) \/ SearchEntry(p) \/ StartProcess(p) \/ StartWait(p)
          \/ SearchPut(p) \/ SearchGet(p) \/ StopBegin(p) \/ StopEnd(p)
          \/ SearchTimeout(p)
    \/ \E w \in WorkerIds : WorkerInit(w) \/ WorkerGet(w) \/ WorkerFinish(w)

SpecUK == InitUK /\ [][NextUK]_vars

-----------------------------------------------------------------------------
(* Properties *)

AdmissionPcs == {"check", "stale_check", "reset_flag", "reset_start", "acquire"}
CheckPcs == {"ct_local", "rl_read", "rl_sleep", "rl_set", "tmdn", "wipo", "wipo_sleep",
             "ct_final", "ct_return"}
BatchPcs == {"set_flag", "set_start", "parse", "progress", "format",
             "fin_reset_flag", "fin_reset_start", "fin_release"} \cup CheckPcs

\* TMDN answered the current check of p with a mark that matches exactly
TmdnExact(p) ==
    /\ hist[p].tmdn_reply.status = "success"
    /\ check_exact_match(ct[p].query_name, hist[p].tmdn_reply.brands) # <<>>

C2_LocalHit ==
    \A p \in Procs :
        (pc[p] = "ct_return" /\ ct[p].result.in_local_db) =>
            /\ hist[p].called = <<>>
            /\ hist[p].tmdn_calls = 0 /\ hist[p].wipo_attempts = 0
            /\ last_tmdn_query_time = hist[p].entry_tmdn_time
            /\ ct[p].result.status # "error"
            /\ SummaryGroup(ct[p].result) = "local_match"

C2_Witness ==
    \E p \in Procs :
        /\ pc[p] = "ct_return" /\ ct[p].result.in_local_db
        /\ ct[p].query_name = <<"A", "b">>

\* C3: at most one invocation is between acquiring and releasing the query
\* lock, so at most one batch and one check_trademark call is executing.
C3_SingleFlight ==
    /\ Cardinality({p \in Procs : pc[p] \in BatchPcs}) <= 1
    /\ Cardinality({p \in Procs : pc[p] \in CheckPcs}) <= 1
    /\ \A p \in Procs : pc[p] \in BatchPcs => query_lock = p

C3_Witness ==
    \E p, q \in Procs : p # q /\ pc[p] \in CheckPcs /\ pc[q] = "acquire"

\* C4: an invocation that runs while another one holds the lock is answered
\* busy: it never waits for the lock, makes no check_trademark call, no
\* source query and no rate-limit wait.
C4_BusyRejected ==
    \A p \in Procs :
        hist[p].overlap =>
            /\ \/ pc[p] \in AdmissionPcs
               \/ pc[p] = "done" /\ ret[p].kind = "busy"
            /\ pc[p] = "acquire" => ENABLED Acquire(p)
            /\ hist[p].checks = 0 /\ hist[p].waits = 0 /\ hist[p].called = <<>>
            /\ results[p] = <<>>

C4_Witness ==
    \E p, q \in Procs :
        /\ p # q /\ hist[p].overlap /\ pc[p] = "done" /\ ret[p].kind = "busy"
        /\ pc[q] \in CheckPcs

\* C5: an invocation that acquired the lock has released it when it has
\* returned, and the in-flight flag it set is cleared (if the flag is set,
\* a later holder of the lock set it), whatever the exit path.
C5_AlwaysReleased ==
    \A p \in Procs :
        (pc[p] = "done" /\ lock_acquired[p]) =>
            /\ query_lock # p
            /\ current_query.is_querying => query_lock \notin {Free, p}

C5_Witness ==
    \E p \in Procs : pc[p] = "done" /\ lock_acquired[p] /\ ret[p].kind = "exception"

C5_WitnessEmpty ==
    \E p \in Procs : pc[p] = "done" /\ lock_acquired[p] /\ ret[p].kind = "empty"

C5_WitnessOverLimit ==
    \E p \in Procs : pc[p] = "done" /\ lock_acquired[p] /\ ret[p].kind = "over_limit"

C5_WitnessAllFailed ==
    \E p \in Procs : pc[p] = "done" /\ lock_acquired[p] /\ ret[p].kind = "all_failed"

C5_WitnessSummary ==
    \E p \in Procs : pc[p] = "done" /\ lock_acquired[p] /\ ret[p].kind = "summary"

\* C6: an invocation that found the in-flight state older than 300 seconds
\* and reset it is admitted and not answered busy.
C6_StaleRecovers ==
    \A p \in Procs :
        (pc[p] = "done" /\ hist[p].stale_reset) => ret[p].kind # "busy"

\* the position of the first occurrence of x in s
FirstIndex(s, x) == CHOOSE i \in 1..Len(s) : s[i] = x /\ \A j \in 1..(i - 1) : s[j] # x

\* C7: the verdicts process_query returns are in the order of the input
\* names, for every mix of valid and invalid names.
C7_InputOrder ==
    \A p \in Procs :
        ret[p].kind = "summary" =>
            \A i, j \in 1..Len(ret[p].choices) :
                i < j => FirstIndex(name_list[p], ret[p].choices[i])
                            < FirstIndex(name_list[p], ret[p].choices[j])

\* TMDN succeeded with marks and the WIPO call of the current check failed
WipoFailedAfterTmdn(p) ==
    /\ pc[p] = "ct_return"
    /\ hist[p].tmdn_reply.status = "success"
    /\ hist[p].tmdn_reply.brands # <<>>
    /\ WIPO \in Range(hist[p].called)
    /\ hist[p].wipo_last # "page"

C10_RetriedOnce ==
    \A p \in Procs :
        (pc[p] = "ct_return" /\ ct[p].result.status = "error") =>
            /\ hist[p].tmdn_reply.status # "success" => hist[p].tmdn_calls = 2
            /\ WIPO \in Range(hist[p].called) => hist[p].wipo_attempts = 2

-----------------------------------------------------------------------------
(* Properties of the match classifier *)

\* mark[i..j] is a whitespace-separated token of the mark
IsToken(mark, i, j) ==
    /\ 1 <= i /\ i <= j /\ j <= Len(mark)
    /\ \A k \in i..j : mark[k] \notin WhiteSpace
    /\ i = 1 \/ mark[i - 1] \in WhiteSpace
    /\ j = Len(mark) \/ mark[j + 1] \in WhiteSpace

\* the number of positions in which two texts of one length differ, ignoring case
Hamming(a, b) == Cardinality({k \in 1..Len(a) : LowerChar(a[k]) # LowerChar(b[k])})

TokenEquals(mark, i, j, c) ==
    /\ IsToken(mark, i, j)
    /\ j - i + 1 = Len(c)
    /\ Hamming(SubSeq(mark, i, j), c) = 0

TokenNear(mark, i, j, c) ==
    /\ IsToken(mark, i, j)
    /\ j - i + 1 = Len(c)
    /\ Hamming(SubSeq(mark, i, j), c) = 1

\* the classifier has run in p on a candidate and a list of marks
Classified(p) == pc[p] = "ct_final" /\ ct[p].result.search_source = <<LOCAL_DB>>

\* C11: _check_exact_match returns a mark iff the candidate equals one of the
\* mark's whitespace-separated tokens, ignoring case; a mark that holds the
\* candidate only inside a longer token is not returned.
C11_ExactWholeWord ==
    \A p \in Procs :
        Classified(p) =>
            LET c == ct[p].query_name
                marks == ct[p].result.brands
            IN  /\ Range(ct[p].exact_matches) \subseteq Range(marks)
                /\ \A n \in 1..Len(marks) :
                      marks[n] \in Range(ct[p].exact_matches)
                        <=> \E i, j \in 1..Len(marks[n]) : TokenEquals(marks[n], i, j, c)

C11_Witness ==
    \E p \in Procs :
        /\ Classified(p)
        /\ ct[p].query_name = <<"A", "b">>
        /\ ct[p].result.brands = <<K_part, M_exact>>
        /\ ct[p].exact_matches = <<M_exact>>

\* C12: _check_similar_match returns a mark iff some token of the mark has
\* the candidate's length and differs from it, ignoring case, in exactly one
\* position; a token of another length never makes a mark similar.
C12_SimilarHamming ==
    \A p \in Procs :
        Classified(p) =>
            LET c == ct[p].query_name
                marks == ct[p].result.brands
            IN  /\ Range(ct[p].similar_matches) \subseteq Range(marks)
                /\ \A n \in 1..Len(marks) :
                      marks[n] \in Range(ct[p].similar_matches)
                        <=> \E i, j \in 1..Len(marks[n]) : TokenNear(marks[n], i, j, c)

C12_Witness ==
    \E p \in Procs :
        /\ Classified(p)
        /\ ct[p].query_name = <<"a", "b">>
        /\ ct[p].result.brands = <<M_similar, K_part>>
        /\ ct[p].similar_matches = <<M_similar>>

NoDuplicates(s) == \A i, j \in 1..Len(s) : s[i] = s[j] => i = j

\* C13: the outputs of _check_exact_match and _check_similar_match hold
\* each mark at most once, also when the input holds a mark text twice, and
\* keep the marks in the order of their first occurrence in the input.
C13_DeduplicatedInOrder ==
    \A p \in Procs :
        Classified(p) =>
            /\ NoDuplicates(ct[p].exact_matches)
            /\ NoDuplicates(ct[p].similar_matches)
            /\ ct[p].exact_matches = DictKeys(ct[p].exact_matches)
            /\ ct[p].similar_matches = DictKeys(ct[p].similar_matches)

\* C14: a mark is returned by both functions only if two different tokens
\* of it qualify, one equal to the candidate and another at Hamming distance
\* exactly 1; no single token satisfies both rules.
C14_BothNeedsTwoTokens ==
    \A p \in Procs :
        Classified(p) =>
            LET c == ct[p].query_name
                marks == ct[p].result.brands
            IN  \A n \in 1..Len(marks) :
                  LET m == marks[n]
                  IN  /\ (m \in Range(ct[p].exact_matches) /\ m \in Range(ct[p].similar_matches))
                         => \E i, j, k, l \in 1..Len(m) :
                               /\ TokenEquals(m, i, j, c)
                               /\ TokenNear(m, k, l, c)
                               /\ <<i, j>> # <<k, l>>
                      /\ \A i, j \in 1..Len(m) :
                            ~(TokenEquals(m, i, j, c) /\ TokenNear(m, i, j, c))

C14_Witness ==
    \E p \in Procs :
        /\ Classified(p)
        /\ ct[p].query_name = <<"a", "b">>
        /\ K_both \in Range(ct[p].exact_matches)
        /\ K_both \in Range(ct[p].similar_matches)

-----------------------------------------------------------------------------
(* Properties of the verdicts *)

\* the names of the results that satisfy Test, in the order of the results
NamesWhere(res, Test(_)) ==
    LET selected == SelectSeq(res, Test)
    IN  [i \in 1..Len(selected) |-> selected[i].query_name]

IsLocal(r) == "in_local_db" \in DOMAIN r /\ r.in_local_db
IsError(r) == ~IsLocal(r) /\ r.status = "error"
IsExact(r) == ~IsLocal(r) /\ ~IsError(r) /\ r.exact_matches # <<>>
IsSimilar(r) ==
    ~IsLocal(r) /\ ~IsError(r) /\ r.exact_matches = <<>> /\ r.similar_matches # <<>>
IsUnmatched(r) ==
    ~IsLocal(r) /\ ~IsError(r) /\ r.exact_matches = <<>> /\ r.similar_matches = <<>>

\* process_query of p has built the summary it returns
SummaryBuilt(p) == ret[p].kind = "summary" /\ "summary" \in DOMAIN ret[p]

UnmatchedReturn(p) ==
    /\ pc[p] = "ct_return"
    /\ IsUnmatched(ct[p].result)

\* a source that answered the current check of p reported more hits than
\* the marks it disclosed
SomeSourceHidMarks(p) ==
    \/ /\ hist[p].tmdn_reply.status = "success"
       /\ hist[p].tmdn_reply.total_found > Len(hist[p].tmdn_reply.brands)
    \/ /\ hist[p].wipo_last = "page"
       /\ hist[p].wipo_reply.total_found > Len(hist[p].wipo_reply.brands)

ReportedBy(p, source) ==
    IF source = TMDN
    THEN IF hist[p].tmdn_reply.status = "success" THEN hist[p].tmdn_reply.total_found ELSE 0
    ELSE IF hist[p].wipo_last = "page" THEN hist[p].wipo_reply.total_found ELSE 0

C17_WitnessFailed ==
    \E p \in Procs :
        /\ pc[p] = "ct_return"
        /\ hist[p].tmdn_reply.status = "success" /\ hist[p].tmdn_reply.total_found = 1
        /\ hist[p].wipo_attempts = MaxRetries /\ hist[p].wipo_last = "raise"
        /\ ct[p].result.total_found = 1

\* the marks the sources delivered to the current check of p
MarksDelivered(p) ==
    (IF hist[p].tmdn_reply.status = "success" THEN Range(hist[p].tmdn_reply.brands) ELSE {})
      \cup (IF hist[p].wipo_last = "page" THEN Range(hist[p].wipo_reply.brands) ELSE {})

AfterParsePcs == (BatchPcs \ {"set_flag", "set_start", "parse"}) \cup {"done"}

\* C19: a batch of more than 100 names is rejected by process_query as a
\* whole with one error: no name of it is validated, no check_trademark
\* call, no source query and no rate-limit wait is made for it.
C19_OverLimitRejected ==
    \A p \in Procs :
        /\ (pc[p] \in AfterParsePcs /\ Len(name_list[p]) > MaxNamesPerQuery)
              => ret[p].kind = "over_limit"
        /\ ret[p].kind = "over_limit" =>
              /\ pc[p] \in {"fin_reset_flag", "fin_reset_start", "fin_release", "done"}
              /\ valid_names[p] = <<>> /\ results[p] = <<>>
              /\ hist[p].checks = 0 /\ hist[p].waits = 0 /\ hist[p].called = <<>>
              /\ ct[p] = NoFrame

C19_Witness ==
    \E p \in Procs :
        /\ pc[p] = "fin_release" /\ ret[p].kind = "over_limit"
        /\ Len(name_list[p]) = MaxNamesPerQuery + 1

\* C19, check_trademarks: a list of more than 20 names is refused with one
\* ValueError before any name of it is checked.
C19_BatchOverLimitRefused ==
    \A p \in Procs :
        /\ (pc[p] \in {"bt_next", "bt_done"} \cup CheckPcs /\ Len(names[p]) > MaxNamesPerBatch)
              => ret[p].kind = "value_error"
        /\ ret[p].kind = "value_error" =>
              /\ pc[p] = "bt_done" /\ results[p] = <<>>
              /\ hist[p].checks = 0 /\ hist[p].waits = 0 /\ hist[p].called = <<>>
              /\ ct[p] = NoFrame

C19_BatchWitness ==
    \E p \in Procs :
        /\ pc[p] = "bt_done" /\ ret[p].kind = "value_error"
        /\ Len(names[p]) = MaxNamesPerBatch + 1

\* the number of names of the list that validate_name rejects
RejectedCount(list) ==
    Cardinality({i \in 1..Len(list) : ~validate_name(list[i]).is_valid})

IsRejectionRecord(r) ==
    /\ r.status = "error" /\ r.search_source = <<>>
    /\ ~validate_name(r.query_name).is_valid

\* C20: a name rejected by validate_name appears in the results as one
\* error record and causes no check_trademark call, no local lookup, no
\* source query and no rate-limit wait.
C20_InvalidNotChecked ==
    \A p \in Procs :
        (pc[p] \in AfterParsePcs \ {"done"} /\ ret[p].kind \notin {"empty", "over_limit"}) =>
            /\ Len(SelectSeq(results[p], IsRejectionRecord)) = RejectedCount(name_list[p])
            /\ \A i \in 1..Len(name_list[p]) :
                  ~validate_name(name_list[p][i]).is_valid =>
                     \E k \in 1..Len(results[p]) :
                        /\ IsRejectionRecord(results[p][k])
                        /\ results[p][k].query_name = name_list[p][i]
            /\ hist[p].checks <= Len(name_list[p]) - RejectedCount(name_list[p])
            /\ hist[p].waits <= hist[p].checks
            /\ pc[p] \in CheckPcs => validate_name(ct[p].query_name).is_valid
            /\ RejectedCount(name_list[p]) = Len(name_list[p]) =>
                  /\ hist[p].checks = 0 /\ hist[p].waits = 0 /\ hist[p].called = <<>>
                  /\ pc[p] \notin CheckPcs

C20_Witness ==
    \E p \in Procs :
        /\ pc[p] = "format"
        /\ name_list[p] = <<L_ab, L_bad, L_bad>>
        /\ hist[p].checks = 1
        /\ Len(results[p]) = 3

-----------------------------------------------------------------------------
(* Properties of the batch *)

\* process_query of p has formatted the results of an admitted batch and
\* has not yet dropped its frame
BatchFormatted(p) ==
    /\ pc[p] \in {"fin_reset_flag", "fin_reset_start", "fin_release"}
    /\ ret[p].kind \in {"all_failed", "summary"}

\* C21: for an admitted non-empty batch the whole-batch failure message is
\* returned iff every result has error status; one non-error result, a
\* local match included, makes process_query return the summary.
C21_AllFailedIffAllError ==
    \A p \in Procs :
        /\ BatchFormatted(p) =>
              /\ results[p] # <<>>
              /\ ret[p].kind = "all_failed"
                    <=> \A i \in 1..Len(results[p]) : results[p][i].status = "error"
              /\ ret[p].kind = "summary"
                    <=> \E i \in 1..Len(results[p]) : results[p][i].status # "error"
        /\ (pc[p] \in {"fin_reset_flag", "fin_reset_start", "fin_release"}
              /\ Len(results[p]) = Len(name_list[p]) /\ name_list[p] # <<>>)
              => ret[p].kind \in {"all_failed", "summary"}

C21_Witness ==
    \E p \in Procs :
        /\ BatchFormatted(p) /\ ret[p].kind = "summary"
        /\ \E i, j \in 1..Len(results[p]) :
              /\ results[p][i].status = "error"
              /\ IsLocal(results[p][j])

C21_WitnessAllFailed ==
    \E p \in Procs :
        /\ BatchFormatted(p) /\ ret[p].kind = "all_failed"
        /\ Len(results[p]) = 2
        /\ \E i \in 1..2 : results[p][i].search_source # <<>>

\* C22: process_query returns exactly one detail record per input name of
\* an admitted batch.
C22_OneVerdictPerName ==
    \A p \in Procs :
        SummaryBuilt(p) =>
            /\ Len(ret[p].detailed_info) = Len(name_list[p])
            /\ Len(ret[p].choices) = Len(name_list[p])

\* the number of names of the list that validate_name accepts
AcceptedCount(list) ==
    Cardinality({i \in 1..Len(list) : validate_name(list[i]).is_valid})

-----------------------------------------------------------------------------
(* Properties of the validator *)

AsciiLetters == {"a", "b", "c", "A", "B"}

\* the text without its leading and trailing whitespace
Trimmed(raw) ==
    LET solid == {i \in 1..Len(raw) : raw[i] \notin WhiteSpace}
    IN  IF solid = {} THEN <<>>
        ELSE LET first == CHOOSE i \in solid : \A j \in solid : i <= j
                 last == CHOOSE i \in solid : \A j \in solid : j <= i
             IN  SubSeq(raw, first, last)

Validated(p) == pc[p] = "validated" /\ ret[p].kind = "validated"

\* C24: a name accepted by validate_name is, after trimming, non-empty, a
\* single token, made only of ASCII letters and at most 50 characters long,
\* and the accepted value is the trimmed input.
C24_AcceptedIsLettersOnly ==
    \A p \in Procs :
        (Validated(p) /\ ret[p].is_valid) =>
            LET t == Trimmed(names[p][1])
            IN  /\ ret[p].value = t
                /\ t # <<>>
                /\ \A i \in 1..Len(t) : t[i] \notin WhiteSpace
                /\ \A i \in 1..Len(t) : t[i] \in AsciiLetters
                /\ Len(t) <= MaxNameLength

\* the error of the first rule violated in the order empty, internal
\* whitespace, non-alphabetic character, too long ("ok" when none is)
FirstViolated(raw) ==
    LET t == Trimmed(raw)
    IN  IF t = <<>> THEN {"empty"}
        ELSE IF \E i \in 1..Len(t) : t[i] \in WhiteSpace THEN {"multiword"}
        ELSE IF \E i \in 1..Len(t) : t[i] \notin AsciiLetters THEN {"charset", "digits_only"}
        ELSE IF Len(t) > MaxNameLength THEN {"too_long"}
        ELSE {"ok"}

\* C25: a name that violates several rules is rejected with the error of
\* the first violated rule in the order trim, empty, internal whitespace,
\* non-alphabetic character, too long.
C25_FirstViolatedRule ==
    \A p \in Procs :
        (Validated(p) /\ ~ret[p].is_valid) =>
            ret[p].value \in FirstViolated(names[p][1])

-----------------------------------------------------------------------------
(* Properties of the local lookups *)

LookedUp == lookup.response # NoResponse

\* C26: LocalDBChecker.search_trademark reports the candidate as found if and
\* only if some record of the database has a name equal to the candidate
\* (case-insensitive, trimmed) and a class that is one of the requested
\* classes, whatever the region argument is.
C26_FoundIffNameAndClass ==
    LookedUp =>
        LET classes == AsList(lookup.nice_classes)
        IN  lookup.response.in_local_db <=>
               \E i \in 1..Len(df) :
                  /\ Strip(Lower(df[i].name)) = Strip(Lower(lookup.query_name))
                  /\ \E k \in 1..Len(classes) : df[i].nice_class.value = classes[k]

\* the nice class under which each line of the checked-names file was recorded
RecordedClass == [line \in CheckedNamesFile |-> "20"]

LocalHit(p) == pc[p] = "ct_return" /\ ct[p].result.in_local_db

\* C27: the local lookup of check_trademark reports a hit only when the
\* candidate was recorded under a requested nice class; a name recorded under
\* another class alone does not short-circuit the check.
C27_LocalHitOnlyInRequestedClass ==
    \A p \in Procs :
        LocalHit(p) =>
            \E line \in checked_names :
                /\ Strip(Lower(line)) = Strip(Lower(ct[p].query_name))
                /\ RecordedClass[line] = nice_class[p]

InFile(query_name) ==
    \E line \in checked_names : Strip(Lower(line)) = Strip(Lower(query_name))

\* C28: when the checked-names file is missing, unreadable or its lock is not
\* obtained in time, the local lookup reports not-found for every name
\* without raising, and check_trademark goes on to the external sources.
C28_UnreadableIsNotFound ==
    \A p \in Procs :
        /\ pc[p] = "ct_local" =>
              \A outcome \in LocalOutcomes \ {"read"} :
                 \A name \in {ct[p].query_name} \cup CheckedNamesFile :
                    /\ ~check_local_database(name, checked_names, outcome)
                    /\ AfterLocal(check_local_database(name, checked_names, outcome)) = "rl_read"
        /\ (pc[p] \in {"rl_read", "rl_sleep", "rl_set", "tmdn"}) =>
              /\ ct[p].result.status = "success"
              /\ ~ct[p].result.in_local_db
        /\ LocalHit(p) => InFile(ct[p].query_name)

\* a recorded name is looked up, the file cannot be read, and TMDN is called
C28_Witness ==
    \E p \in Procs :
        /\ pc[p] = "ct_return"
        /\ InFile(ct[p].query_name)
        /\ ~ct[p].result.in_local_db
        /\ hist[p].tmdn_calls = 1

-----------------------------------------------------------------------------
(* Properties of the source calls *)

TmdnStarted(p) == hist[p].tmdn_start > 0

\* C29: when two callers go through _wait_for_tmdn_rate_limit of one
\* TrademarkChecker at once, their TMDN calls start at least one second
\* apart under every interleaving.
C29_ConcurrentCallsSpaced ==
    \A p, q \in Procs :
        (p # q /\ TmdnStarted(p) /\ TmdnStarted(q)) =>
            \/ hist[p].tmdn_start - hist[q].tmdn_start >= MinTmdnInterval
            \/ hist[q].tmdn_start - hist[p].tmdn_start >= MinTmdnInterval

WipoReturned(p) ==
    /\ hist[p].wipo_attempts > 0
    /\ pc[p] \notin {"wipo", "wipo_sleep"}

-----------------------------------------------------------------------------
(* Properties of one check_trademark call *)

IsPrefix(s, t) == Len(s) <= Len(t) /\ \A i \in 1..Len(s) : s[i] = t[i]

SourceOrder == <<LOCAL_DB, TMDN, WIPO>>

Checking(p) == ct[p] # NoFrame /\ hist[p].checks > 0

C33_ConsecutiveCallsSpaced ==
    \A p \in Procs :
        TmdnStarted(p) =>
            /\ hist[p].tmdn_start - hist[p].entry_tmdn_time >= MinTmdnInterval
            /\ last_tmdn_query_time = hist[p].tmdn_start

\* a second TMDN search of the same checker, released after the first one
C33_Witness ==
    \E p \in Procs :
        /\ TmdnStarted(p)
        /\ hist[p].checks = 2
        /\ hist[p].entry_tmdn_time > 0
        /\ pc[p] = "tmdn"

CheckReturned(p) == pc[p] = "ct_return" /\ hist[p].checks > 0

Coherent(result) ==
    /\ result.has_exact_match <=> result.exact_matches # <<>>
    /\ result.has_similar_match <=> result.similar_matches # <<>>
    /\ Range(result.exact_matches) \subseteq Range(result.brands)
    /\ Range(result.similar_matches) \subseteq Range(result.brands)

-----------------------------------------------------------------------------
(* Properties of the admission of process_query *)

RejectedBusy(p) == pc[p] = "done" /\ ret[p].kind = "busy"

\* C36: an invocation rejected as busy leaves the query lock and the
\* in-flight state (is_querying, start_time) of the running batch as they
\* were, and never releases the lock of the running batch.
C36_BusyLeavesStateAlone ==
    \A p \in Procs :
        RejectedBusy(p) =>
            /\ ~lock_acquired[p]
            /\ ~hist[p].stale_reset

\* where an invocation is from the moment it has set the flag until it
\* clears it in the "finally" clause
FlagSetPcs == BatchPcs \ {"set_flag", "fin_reset_start", "fin_release"}

\* C37: in every reachable state, is_querying being true implies that the
\* query lock is held by the invocation that set the flag.
C37_FlagImpliesLockHeld ==
    current_query.is_querying =>
        /\ query_lock \in Procs
        /\ lock_acquired[query_lock]
        /\ pc[query_lock] \in FlagSetPcs
        /\ \A q \in Procs \ {query_lock} : pc[q] \notin BatchPcs

\* the flag is set while the other invocation is being admitted
C37_Witness ==
    \E p, q \in Procs :
        /\ p # q
        /\ current_query.is_querying
        /\ query_lock = p
        /\ pc[p] \in CheckPcs
        /\ pc[q] \in AdmissionPcs

-----------------------------------------------------------------------------
(* Properties of the UK worker manager *)

SearchReturned(p) ==
    pc[p] = "uk_idle" /\ call.op = "search_trademark" /\ call.result.kind # "none"

\* C31: when search_trademark times out waiting for a result, the worker
\* that was serving the query is no longer alive when search_trademark
\* returns, and the manager holds a fresh worker with fresh queues.
C31_TimeoutRestartsWorker ==
    \A p \in Procs :
        (SearchReturned(p) /\ call.result.kind = "timeout") =>
            /\ ~is_alive(workers, call.sent_to)
            /\ uk.process # call.sent_to
            /\ uk.input_queue # workers[call.sent_to].input
            /\ uk.output_queue # workers[call.sent_to].output

\* C35: a result search_trademark(q) returns is the worker's result for
\* that same query q, never the late result of an earlier query, also after
\* an earlier query timed out.
C35_ResultOfSameQuery ==
    \A p \in Procs :
        (SearchReturned(p) /\ call.result.kind \in {"result", "worker_error"}) =>
            call.result.served = call.query

LiveWorkers == {w \in 1..Len(workers) : is_alive(workers, w)}

\* C38: a UKCheckerProcess never has more than one live worker at a time:
\* a worker is spawned only when there is none or the previous one has
\* exited, so every worker but the current one has exited.
C38_AtMostOneLiveWorker ==
    /\ Cardinality(LiveWorkers) <= 1
    /\ \A w \in 1..Len(workers) : w # uk.process => ~is_alive(workers, w)
    /\ uk.process # NoWorker =>
          /\ uk.process = Len(workers)
          /\ uk.input_queue = workers[uk.process].input
          /\ uk.output_queue = workers[uk.process].output

\* a second worker runs after the first one was stopped
C38_Witness ==
    /\ Len(workers) >= 2
    /\ LiveWorkers = {Len(workers)}
    /\ workers[Len(workers)].state = "busy"

=============================================================================
